---- MODULE Spec2Model ----
(***************************************************************************)
(* Model of src/src/services/properties.service.ts: the property-listing   *)
(* service over a relational store (tables as sets of rows), the           *)
(* price-change mailer and the in-memory AI chat-session registry.         *)
(*                                                                         *)
(* Abstractions: free-text columns that no operation branches on (title,   *)
(* description, address, facilities, size, rooms, documentUrl, ...) and    *)
(* the listing tables' timestamps are left out of the rows; a select       *)
(* without ORDER BY is returned ordered by row id.                         *)
(***************************************************************************)
EXTENDS Integers, Sequences, FiniteSets, TLC

\* ------------------------------------------------------------- bounds
MaxProps == 2          \* property rows ever inserted
MaxImageId == 5        \* image rows ever inserted
MaxPricingId == 4      \* pricing-history rows ever inserted
MaxImages == 1         \* length of an images list in an input
MaxVerifies == 2       \* verifyProperty calls that find the property
MaxCalls == 2          \* addNewProperty calls running concurrently
StartLimit == 1        \* the private seller's listingLimit when the concurrent calls start
MaxChildren == 2       \* image, view and pricing rows per listing in the read path

\* ------------------------------------------------------------- values
\* JS undefined / null, and a present value v, for optional fields.
Undefined == <<>>
Null == <<>>
Def(v) == <<v>>

NoError == <<>>
UserNotFound == <<"User not found">>
LimitReached == <<"Listings limit reached">>
PropertyNotFound == <<"Property with ID not found">>
SendFailed == <<"sendPriceChangeNotification rejected">>
TypeError == <<"TypeError: Cannot read properties of undefined">>

Prices == {100, 200}
GhostUser == 9         \* a user id with no row
GhostProperty == 9     \* a property id with no row
StartTime == 10        \* the clock when the model starts; earlier rows are stamped below it
UpdateCurrencies == {"EUR", ""}
Gallery == <<[imageUrl |-> "a.png", isPrimary |-> TRUE],
            [imageUrl |-> "b.png", isPrimary |-> FALSE],
            [imageUrl |-> "a.png", isPrimary |-> TRUE]>>

\* The images lists of the inputs: the first n pictures of the gallery.
ImageLists == {SubSeq(Gallery, 1, n) : n \in 0..MaxImages}

VARIABLES
  properties,          \* table properties: rows [id, ownerId, price, currency, status, isVerified]
  users,               \* table users: rows [id, role, listingLimit, email]
  propertyImages,      \* table property_images: rows [id, propertyId, imageUrl, isPrimary]
  propertyViews,       \* table property_views: rows [id, propertyId]
  pricingHistory,      \* table pricing_history: rows [id, propertyId, price, currency]
  wishlist,            \* table wishlist: rows [userId, propertyId]
  conversations,       \* table conversations: rows [id, isActive, systemPromptId]
  messages,            \* table messages: rows [id, conversationId, sender, content, createdAt, isVisible]
  systemPrompts,       \* table system_prompts: rows [id, content]
  activeChatSessions,  \* registry: conversation id -> chat session
  now,                 \* the clock read by new Date()
  serial,              \* the store's id generators, one per table written here
  outbox,              \* sendPriceChangeNotification calls issued by the last operation
  result,              \* the last operation: its name, arguments, error thrown or value returned
  calls                \* addNewProperty calls in flight: position and locals of each

vars == <<properties, users, propertyImages, propertyViews, pricingHistory, wishlist,
          conversations, messages, systemPrompts, activeChatSessions, now, serial, outbox, result,
          calls>>

listingTables == <<properties, users, propertyImages, propertyViews, pricingHistory, wishlist>>
chatTables == <<conversations, messages, systemPrompts, activeChatSessions, now>>

\* ------------------------------------------------------------- store helpers
\* Rows of a select without ORDER BY, as the array the driver returns (by id).
RECURSIVE SelectRows(_)
SelectRows(rows) ==
  IF rows = {} THEN <<>>
  ELSE LET first == CHOOSE r \in rows : \A o \in rows : r.id <= o.id
       IN <<first>> \o SelectRows(rows \ {first})

Range(s) == {s[i] : i \in 1..Len(s)}

\* The row with a given primary key.
RowOf(rows, id) == CHOOSE r \in rows : r.id = id

WhereProperty(rows, propertyId) == {r \in rows : r.propertyId = propertyId}

\* insert(propertyImages).values(imgs.map(...)).returning()
InsertImages(propertyId, imgs, firstId) ==
  [i \in 1..Len(imgs) |->
     [id |-> firstId + i - 1, propertyId |-> propertyId,
      imageUrl |-> imgs[i].imageUrl, isPrimary |-> imgs[i].isPrimary]]

\* x || fallback for a string-valued optional: undefined, null and "" are falsy.
OrElse(opt, fallback) ==
  IF opt = Undefined \/ opt[1] = "" THEN fallback ELSE opt[1]

Throw(op, args, error) ==
  result' = [op |-> op, args |-> args, error |-> error, value |-> <<>>]

Return(op, args, value) ==
  result' = [op |-> op, args |-> args, error |-> NoError, value |-> value]

\* ------------------------------------------------------------- getProperties, getProperty
\* isPropertyWished(propertyId, userId)
IsPropertyWished(propertyId, userId) ==
  IF userId = Undefined THEN FALSE
  ELSE Cardinality({w \in wishlist : w.propertyId = propertyId /\ w.userId = userId[1]}) > 0

\* filterParam: string = "active": the default applies when the argument is undefined.
FilterParam(arg) == IF arg = Undefined THEN "active" ELSE arg[1]

\* Mutant of MatchesFilter: the default case filters like "active".
MatchesFilterDefaultActive(property, filterParam) ==
  CASE filterParam = "sold_rented" ->
         property.status \in {"sold", "rented"} /\ property.isVerified
    [] filterParam = "inactive" -> property.status = "inactive" /\ property.isVerified
    [] OTHER -> property.status = "active" /\ property.isVerified

\* The where clause of each case of the switch.
MatchesFilter(property, filterParam) ==
  CASE filterParam = "active" -> property.status = "active" /\ property.isVerified
    [] filterParam = "sold_rented" ->
         property.status \in {"sold", "rented"} /\ property.isVerified
    [] filterParam = "inactive" -> property.status = "inactive" /\ property.isVerified
    [] OTHER -> TRUE

\* The owner projection of the left join: empty strings when the owner row is missing.
OwnerProjection(ownerId) ==
  LET owner == {u \in users : u.id = ownerId}
  IN IF owner = {}
     THEN [id |-> "", email |-> "", username |-> "", role |-> ""]
     ELSE LET u == CHOOSE x \in owner : TRUE
          IN [id |-> Def(u.id), email |-> u.email, username |-> "", role |-> u.role]

GetProperties(arg, userId) ==
  LET filterParam == FilterParam(arg)
      propertiesList == SelectRows({p \in properties : MatchesFilter(p, filterParam)})
      propertyIds == {propertiesList[i].id : i \in 1..Len(propertiesList)}
      images == {r \in propertyImages : r.propertyId \in propertyIds}
      views == {r \in propertyViews : r.propertyId \in propertyIds}
      pricing == {r \in pricingHistory : r.propertyId \in propertyIds}
  IN
  /\ Return("getProperties", [filterParam |-> arg, userId |-> userId],
            [i \in 1..Len(propertiesList) |->
               [property |-> propertiesList[i],
                images |-> SelectRows(WhereProperty(images, propertiesList[i].id)),
                views |-> SelectRows(WhereProperty(views, propertiesList[i].id)),
                pricingHistory |-> SelectRows(WhereProperty(pricing, propertiesList[i].id)),
                owner |-> OwnerProjection(propertiesList[i].ownerId),
                isWished |-> IsPropertyWished(propertiesList[i].id, userId)]])
  /\ outbox' = <<>>
  /\ UNCHANGED <<listingTables, chatTables, serial>>

\* One side of a left join: the matching rows, or one null when there is none.
LeftJoin(rows) == IF rows = {} THEN {Null} ELSE {Def(r) : r \in rows}

\* The rows of the select of getProperty: the cross product of the property's
\* images, views and pricing rows.
JoinRows(propertyId) ==
  {[property |-> p, image |-> i, view |-> v, pricing |-> h] :
     p \in {x \in properties : x.id = propertyId},
     i \in LeftJoin(WhereProperty(propertyImages, propertyId)),
     v \in LeftJoin(WhereProperty(propertyViews, propertyId)),
     h \in LeftJoin(WhereProperty(pricingHistory, propertyId))}

\* Mutant of PushDistinct: every joined row's child is pushed.
PushEvery(list, child) ==
  IF child # Null THEN Append(list, child[1]) ELSE list

\* child && !list.some((x) => x.id === child.id) ? push : keep
PushDistinct(list, child) ==
  IF child # Null /\ ~ \E i \in 1..Len(list) : list[i].id = child[1].id
  THEN Append(list, child[1])
  ELSE list

\* The reducer of getProperty, applied to one joined row.
FoldRow(acc, row, isWished) ==
  LET start == IF acc = Undefined
               THEN [property |-> row.property, images |-> <<>>, views |-> <<>>,
                     pricingHistory |-> <<>>,
                     owner |-> OwnerProjection(row.property.ownerId),
                     isWished |-> isWished]
               ELSE acc[1]
  IN Def([start EXCEPT !.images = PushDistinct(@, row.image),
                       !.views = PushDistinct(@, row.view),
                       !.pricingHistory = PushDistinct(@, row.pricing)])

RECURSIVE Reduce(_, _, _)
Reduce(rows, acc, isWished) ==
  IF rows = {} THEN acc
  ELSE LET row == CHOOSE r \in rows : TRUE
       IN Reduce(rows \ {row}, FoldRow(acc, row, isWished), isWished)

GetProperty(propertyId, userId) ==
  LET args == [propertyId |-> propertyId, userId |-> userId]
      property == JoinRows(propertyId)
  IN
  /\ IF property = {}
     THEN Throw("getProperty", args, PropertyNotFound)
     ELSE Return("getProperty", args,
                 Reduce(property, Undefined, IsPropertyWished(propertyId, userId))[1])
  /\ outbox' = <<>>
  /\ UNCHANGED <<listingTables, chatTables, serial>>

\* ------------------------------------------------------------- addNewProperty
CreateInputs ==
  [ownerId : {1, 2, GhostUser}, price : {100},
   currency : {Undefined, Def("EUR")}, status : {Undefined},
   images : {Undefined} \cup {Def(l) : l \in ImageLists}]

\* Mutant of QuotaExceeded: a limit of exactly 0 passes the check.
QuotaExceededBelowZero(role, listingLimit) ==
  role = "private_seller" /\ listingLimit # Null /\ listingLimit[1] < 0

\* role === "private_seller" && listingLimit !== null && listingLimit <= 0
QuotaExceeded(role, listingLimit) ==
  role = "private_seller" /\ listingLimit # Null /\ listingLimit[1] <= 0

\* role === "private_seller" && (listingLimit || 0) !== 0
DecrementGuard(role, listingLimit) ==
  role = "private_seller" /\ (IF listingLimit = Null THEN 0 ELSE listingLimit[1]) # 0

\* (ownerData?.listingLimit || 1) - 1
DecrementedLimit(ownerLimit) ==
  (IF ownerLimit = Null \/ ownerLimit[1] = 0 THEN 1 ELSE ownerLimit[1]) - 1

AddNewProperty(input) ==
  LET user == {u \in users : u.id = input.ownerId} IN
  IF user = {}
  THEN /\ Throw("addNewProperty", input, UserNotFound)
       /\ outbox' = <<>>
       /\ UNCHANGED <<listingTables, chatTables, serial>>
  ELSE
    LET u == CHOOSE x \in user : TRUE
        role == u.role
        listingLimit == u.listingLimit
    IN
    IF QuotaExceeded(role, listingLimit)
    THEN /\ Throw("addNewProperty", input, LimitReached)
         /\ outbox' = <<>>
         /\ UNCHANGED <<listingTables, chatTables, serial>>
    ELSE
      LET imgs == IF input.images = Undefined THEN <<>> ELSE input.images[1]
          property == [id |-> serial.properties, ownerId |-> input.ownerId,
                       price |-> input.price,
                       currency |-> OrElse(input.currency, "USD"),
                       status |-> OrElse(input.status, "active"),
                       isVerified |-> FALSE]
          \* the owner row as re-read after the insert
          ownerData == CHOOSE x \in users : x.id = input.ownerId
          images == InsertImages(property.id, imgs, serial.propertyImages)
          pricingHistoryRecord ==
            [id |-> serial.pricingHistory, propertyId |-> property.id,
             price |-> input.price, currency |-> OrElse(input.currency, "USD")]
      IN
      /\ serial.properties <= MaxProps
      /\ serial.propertyImages + Len(imgs) - 1 <= MaxImageId
      /\ serial.pricingHistory <= MaxPricingId
      /\ properties' = properties \cup {property}
      /\ users' =
           IF DecrementGuard(role, listingLimit)
           THEN (users \ {ownerData}) \cup
                  {[ownerData EXCEPT !.listingLimit = Def(DecrementedLimit(ownerData.listingLimit))]}
           ELSE users
      /\ propertyImages' = propertyImages \cup Range(images)
      /\ pricingHistory' = pricingHistory \cup {pricingHistoryRecord}
      /\ serial' = [serial EXCEPT !.properties = @ + 1,
                                  !.propertyImages = @ + Len(imgs),
                                  !.pricingHistory = @ + 1]
      /\ Return("addNewProperty", input,
                [property |-> property, images |-> images, views |-> <<>>,
                 pricingHistory |-> <<pricingHistoryRecord>>])
      /\ outbox' = <<>>
      /\ UNCHANGED <<propertyViews, wishlist, chatTables>>

\* ------------------------------------------------------------- updateProperty
UpdateInputs ==
  [price : {Undefined} \cup {Def(p) : p \in Prices},
   currency : {Undefined} \cup {Def(c) : c \in UpdateCurrencies},
   status : {Undefined},
   images : {Undefined} \cup {Def(l) : l \in ImageLists}]

\* x || fallback for a number-valued optional: undefined, null and 0 are falsy.
OrElseNum(opt, fallback) ==
  IF opt = Undefined \/ opt[1] = 0 THEN fallback ELSE opt[1]

\* Mutant of PriceChanged: any supplied price counts as a change.
PriceSupplied(existing, input) == input.price # Undefined

\* input.price !== undefined && existingProperty[0].price !== input.price
PriceChanged(existing, input) ==
  input.price # Undefined /\ existing.price # input.price[1]

\* The sendPriceChangeNotification calls of one price change: one per user who
\* wishlists the property, has a users row and a truthy email.
PriceChangeDispatches(existing, newPrice) ==
  LET wishlistItems == {w \in wishlist : w.propertyId = existing.id}
      userIds == {w.userId : w \in wishlistItems}
      allUsers == SelectRows({u \in users : u.id \in userIds})
      HasEmail(u) == u.email # ""
  IN IF Len(allUsers) > 0
     THEN [i \in 1..Len(SelectSeq(allUsers, HasEmail)) |->
             [email |-> SelectSeq(allUsers, HasEmail)[i].email,
              oldPrice |-> existing.price, newPrice |-> newPrice]]
     ELSE <<>>

\* await Promise.all(...): rejects when one of the issued sends rejects.
DispatchRejects(sent, rejecting) ==
  \E i \in 1..Len(sent) : sent[i].email \in rejecting

\* The images block: the stored rows of the property afterwards, the array the
\* call returns as images, and the next image id.
ReplaceImages(existingImages, propertyId, imgs, firstId) ==
  LET IsNew(img) == ~ \E e \in existingImages :
                        e.imageUrl = img.imageUrl /\ e.isPrimary = img.isPrimary
      newImages == SelectSeq(imgs, IsNew)
      afterDiff == IF Len(newImages) > 0
                   THEN InsertImages(propertyId, newImages, firstId)
                   ELSE SelectRows(existingImages)
      midId == firstId + Len(newImages)
      inserted == InsertImages(propertyId, imgs, midId)
  IN [stored |-> IF Len(imgs) > 0 THEN Range(inserted) ELSE {},
      images |-> IF Len(imgs) > 0 THEN inserted ELSE afterDiff,
      nextId |-> midId + Len(imgs)]

\* The pricing-history row of an update that supplies price or currency.
NewPricingRow(existing, input, id) ==
  [id |-> id, propertyId |-> existing.id,
   price |-> OrElseNum(input.price, existing.price),
   currency |-> OrElse(input.currency, OrElse(Def(existing.currency), "USD"))]

SuppliesPricing(input) == input.price # Undefined \/ input.currency # Undefined

UpdateProperty(propertyId, input, rejecting) ==
  LET args == [propertyId |-> propertyId, input |-> input, rejecting |-> rejecting]
      existingProperty == {p \in properties : p.id = propertyId}
  IN
  IF existingProperty = {}
  THEN /\ Throw("updateProperty", args, PropertyNotFound)
       /\ outbox' = <<>>
       /\ UNCHANGED <<listingTables, chatTables, serial>>
  ELSE
    LET existing == CHOOSE p \in existingProperty : TRUE
        sent == IF PriceChanged(existing, input)
                THEN PriceChangeDispatches(existing, input.price[1])
                ELSE <<>>
    IN
    IF DispatchRejects(sent, rejecting)
    THEN /\ Throw("updateProperty", args, SendFailed)
         /\ outbox' = sent
         /\ UNCHANGED <<listingTables, chatTables, serial>>
    ELSE
      LET updated == [existing EXCEPT
                        !.price = IF input.price # Undefined THEN input.price[1] ELSE @,
                        !.currency = IF input.currency # Undefined THEN input.currency[1] ELSE @,
                        !.status = IF input.status # Undefined THEN input.status[1] ELSE @]
          existingImages == WhereProperty(propertyImages, propertyId)
          replaced == IF input.images # Undefined
                      THEN ReplaceImages(existingImages, propertyId, input.images[1],
                                         serial.propertyImages)
                      ELSE [stored |-> existingImages,
                            images |-> SelectRows(existingImages),
                            nextId |-> serial.propertyImages]
          pricingHistoryRecord ==
            IF SuppliesPricing(input)
            THEN {NewPricingRow(existing, input, serial.pricingHistory)}
            ELSE {}
          owner == {u \in users : u.id = existing.ownerId}
      IN
      /\ replaced.nextId - 1 <= MaxImageId
      /\ pricingHistoryRecord # {} => serial.pricingHistory <= MaxPricingId
      /\ properties' = (properties \ {existing}) \cup {updated}
      /\ propertyImages' = (propertyImages \ existingImages) \cup replaced.stored
      /\ pricingHistory' = pricingHistory \cup pricingHistoryRecord
      /\ serial' = [serial EXCEPT !.propertyImages = replaced.nextId,
                                  !.pricingHistory = @ + Cardinality(pricingHistoryRecord)]
      /\ outbox' = sent
      /\ Return("updateProperty", args,
                [property |-> updated,
                 images |-> replaced.images,
                 views |-> SelectRows(WhereProperty(propertyViews, propertyId)),
                 pricingHistory |->
                   SelectRows(WhereProperty(pricingHistory \cup pricingHistoryRecord, propertyId)),
                 owner |-> IF owner = {} THEN Null ELSE Def(CHOOSE u \in owner : TRUE),
                 isWished |-> FALSE])
      /\ UNCHANGED <<users, propertyViews, wishlist, chatTables>>

\* ------------------------------------------------------------- deleteProperty
\* catch (error) { throw new Error(`Failed to delete property: ${error.message}`) }
DeleteFailed(error) == <<"Failed to delete property: ">> \o error

\* ON DELETE CASCADE of the child tables' propertyId foreign keys.
Cascade(rows, propertyId) == {r \in rows : r.propertyId # propertyId}

DeleteProperty(propertyId) ==
  LET existingProperty == {p \in properties : p.id = propertyId} IN
  IF existingProperty = {}
  THEN /\ Throw("deleteProperty", propertyId, DeleteFailed(PropertyNotFound))
       /\ outbox' = <<>>
       /\ UNCHANGED <<listingTables, chatTables, serial>>
  ELSE /\ properties' = properties \ existingProperty
       /\ propertyImages' = Cascade(propertyImages, propertyId)
       /\ propertyViews' = Cascade(propertyViews, propertyId)
       /\ pricingHistory' = Cascade(pricingHistory, propertyId)
       /\ wishlist' = Cascade(wishlist, propertyId)
       /\ Return("deleteProperty", propertyId, <<>>)
       /\ outbox' = <<>>
       /\ UNCHANGED <<users, chatTables, serial>>

\* ------------------------------------------------------------- verifyProperty
\* Message text is a sequence of parts: literal text and property summaries.
Text(t) == [part |-> "text", text |-> t, summary |-> <<>>]
SummaryPart(summary) == [part |-> "summary", text |-> "", summary |-> <<summary>>]

\* newPropertySummary: the modelled columns, the image count and the price lines.
PropertySummary(property, images, pricingHistoryRecords) ==
  [id |-> property.id,
   price |-> <<property.price, property.currency>>,
   status |-> property.status,
   isVerified |-> IF property.isVerified THEN "Yes" ELSE "No",
   images |-> Cardinality(images),
   pricingHistory |-> [i \in 1..Len(pricingHistoryRecords) |->
                         <<pricingHistoryRecords[i].price, pricingHistoryRecords[i].currency>>]]

ConversationMessages(rows, conversationId) ==
  {m \in rows : m.conversationId = conversationId}

\* select ... where conversationId = id order by createdAt
RECURSIVE OrderByCreatedAt(_)
OrderByCreatedAt(rows) ==
  IF rows = {} THEN <<>>
  ELSE LET first == CHOOSE r \in rows : \A o \in rows : r.createdAt <= o.createdAt
       IN <<first>> \o OrderByCreatedAt(rows \ {first})

\* messageHistory.map(msg => ({role: msg.sender === "ai" ? "model" : "user", parts: [{text}]}))
History(messageHistory) ==
  [i \in 1..Len(messageHistory) |->
     [role |-> IF messageHistory[i].sender = "ai" THEN "model" ELSE "user",
      parts |-> messageHistory[i].content]]

\* model.startChat({history, ...})
StartChat(history) == [history |-> history]

\* Mutant of RebuildSession: the session is set without looking for an entry.
RebuildAlways(sessions, rows, conversationId) ==
  [c \in DOMAIN sessions \cup {conversationId} |->
     IF c = conversationId
     THEN StartChat(History(OrderByCreatedAt(ConversationMessages(rows, conversationId))))
     ELSE sessions[c]]

\* const chat = activeChatSessions.get(id); if (chat) { ...; activeChatSessions.set(id, updatedChat) }
RebuildSession(sessions, rows, conversationId) ==
  IF conversationId \in DOMAIN sessions
  THEN [c \in DOMAIN sessions |->
          IF c = conversationId
          THEN StartChat(History(OrderByCreatedAt(ConversationMessages(rows, conversationId))))
          ELSE sessions[c]]
  ELSE sessions

\* select from messages where conversationId = id and sender = "system" and
\* isVisible = false limit 1
HiddenSystemMessages(rows, conversationId) ==
  {m \in ConversationMessages(rows, conversationId) : m.sender = "system" /\ ~ m.isVisible}

\* Mutant of SkipsConversation: no conversation is skipped.
SkipsNone(conversation) == FALSE

\* if (!conversation.systemPromptId) { ...; continue; }
SkipsConversation(conversation) == conversation.systemPromptId = ""

\* One iteration of the loop over the active conversations; st holds the messages
\* table, the registry and the next message id.
SyncConversation(conversation, st, summary) ==
  IF SkipsConversation(conversation)
  THEN st
  ELSE
    LET hidden == HiddenSystemMessages(st.messages, conversation.id) IN
    IF hidden # {}
    THEN LET systemMessage == CHOOSE m \in hidden : \A o \in hidden : m.id <= o.id
             updatedContent == systemMessage.content \o
                                 <<Text("### New Property Added:"), SummaryPart(summary)>>
             rows == (st.messages \ {systemMessage}) \cup
                       {[systemMessage EXCEPT !.content = updatedContent]}
         IN [st EXCEPT !.messages = rows,
                       !.sessions = RebuildSession(@, rows, conversation.id)]
    ELSE
      LET defaultPrompt == {sp \in systemPrompts : sp.id = conversation.systemPromptId} IN
      IF defaultPrompt # {}
      THEN LET newSystemMessageContent ==
                 (CHOOSE sp \in defaultPrompt : TRUE).content \o
                   <<Text("### Available Properties:"), SummaryPart(summary)>>
               rows == st.messages \cup
                         {[id |-> st.nextId, conversationId |-> conversation.id,
                           sender |-> "system", content |-> newSystemMessageContent,
                           createdAt |-> now, isVisible |-> FALSE]}
           IN [st EXCEPT !.messages = rows,
                         !.nextId = @ + 1,
                         !.sessions = RebuildSession(@, rows, conversation.id)]
      ELSE st

\* for (const conversation of activeConversations) { ... }
RECURSIVE SyncConversations(_, _, _)
SyncConversations(activeConversations, st, summary) ==
  IF activeConversations = <<>> THEN st
  ELSE SyncConversations(Tail(activeConversations),
                         SyncConversation(Head(activeConversations), st, summary), summary)

VerifyProperty(id) ==
  LET matched == {p \in properties : p.id = id} IN
  IF matched = {}
  THEN \* result[0] is undefined: reading property.id throws
       /\ Throw("verifyProperty", id, TypeError)
       /\ outbox' = <<>>
       /\ UNCHANGED <<listingTables, chatTables, serial>>
  ELSE
    LET property == [RowOf(properties, id) EXCEPT !.isVerified = TRUE]
        newPropertySummary ==
          PropertySummary(property, WhereProperty(propertyImages, id),
                          SelectRows(WhereProperty(pricingHistory, id)))
        activeConversations == SelectRows({c \in conversations : c.isActive})
        st == SyncConversations(activeConversations,
                                [messages |-> messages, sessions |-> activeChatSessions,
                                 nextId |-> serial.messages],
                                newPropertySummary)
    IN
    /\ now - StartTime < MaxVerifies
    /\ properties' = (properties \ matched) \cup {property}
    /\ messages' = st.messages
    /\ activeChatSessions' = st.sessions
    /\ serial' = [serial EXCEPT !.messages = st.nextId]
    /\ now' = now + 1
    /\ Return("verifyProperty", id, property)
    /\ outbox' = <<>>
    /\ UNCHANGED <<users, propertyImages, propertyViews, pricingHistory, wishlist,
                   conversations, systemPrompts>>

\* ------------------------------------------------------------- specifications
PrivateSellerLimits == {Null, Def(-1), Def(0), Def(1), Def(3)}

NoChat ==
  /\ conversations = {}
  /\ messages = {}
  /\ systemPrompts = {}
  /\ activeChatSessions = <<>>
  /\ now = StartTime

\* The create path, from an empty listing store.
InitCreate ==
  /\ properties = {}
  /\ \E l1 \in PrivateSellerLimits :
       users = {[id |-> 1, role |-> "private_seller", listingLimit |-> l1, email |-> "u1@x"],
                [id |-> 2, role |-> "agency", listingLimit |-> Def(0), email |-> "u2@x"],
                [id |-> 3, role |-> "renter", listingLimit |-> Null, email |-> ""]}
  /\ propertyImages = {}
  /\ propertyViews = {}
  /\ pricingHistory = {}
  /\ wishlist = {}
  /\ NoChat
  /\ serial = [properties |-> 1, propertyImages |-> 1, pricingHistory |-> 1, messages |-> 1]
  /\ outbox = <<>>
  /\ result = [op |-> "init", args |-> <<>>, error |-> NoError, value |-> <<>>]
  /\ calls = <<>>

NextCreate ==
  \E input \in CreateInputs : AddNewProperty(input) /\ UNCHANGED calls

SpecCreate == InitCreate /\ [][NextCreate]_vars

\* The update and delete paths, from a store that holds two listings.
ImageRow(id, propertyId, n) ==
  [id |-> id, propertyId |-> propertyId,
   imageUrl |-> IF n = 1 THEN "a.png" ELSE "b.png", isPrimary |-> n = 1]

InitUpdate ==
  /\ properties =
       {[id |-> 1, ownerId |-> 1, price |-> 100, currency |-> "USD",
         status |-> "active", isVerified |-> FALSE],
        [id |-> 2, ownerId |-> 2, price |-> 200, currency |-> "EUR",
         status |-> "active", isVerified |-> TRUE]}
  /\ users = {[id |-> 1, role |-> "private_seller", listingLimit |-> Def(1), email |-> "u1@x"],
              [id |-> 2, role |-> "agency", listingLimit |-> Null, email |-> "u2@x"],
              [id |-> 3, role |-> "renter", listingLimit |-> Null, email |-> ""]}
  /\ \E n \in 0..1 :
       propertyImages = {ImageRow(i, 1, i) : i \in 1..n} \cup {ImageRow(3, 2, 1)}
  /\ propertyViews = {[id |-> 1, propertyId |-> 1]}
  /\ pricingHistory = {[id |-> 1, propertyId |-> 1, price |-> 100, currency |-> "USD"],
                       [id |-> 2, propertyId |-> 2, price |-> 200, currency |-> "EUR"]}
  /\ \E wishers \in {{}, {3}, {1, 2, 3}} :
       wishlist = {[userId |-> u, propertyId |-> 1] : u \in wishers}
                    \cup {[userId |-> 1, propertyId |-> 2]}
  /\ NoChat
  /\ serial = [properties |-> 3, propertyImages |-> 4, pricingHistory |-> 3, messages |-> 1]
  /\ outbox = <<>>
  /\ result = [op |-> "init", args |-> <<>>, error |-> NoError, value |-> <<>>]
  /\ calls = <<>>

\* The emails whose sendPriceChangeNotification rejects during a call.
Rejecting == {{}, {"u2@x"}}

\* The inputs tried on an id with no property row.
GhostInputs == {input \in UpdateInputs : input.currency = Undefined /\ input.images = Undefined}

NextUpdate ==
  \/ \E input \in UpdateInputs, rejecting \in Rejecting :
       UpdateProperty(1, input, rejecting) /\ UNCHANGED calls
  \/ \E input \in GhostInputs : UpdateProperty(GhostProperty, input, {}) /\ UNCHANGED calls
  \/ \E propertyId \in {1, GhostProperty} : DeleteProperty(propertyId) /\ UNCHANGED calls

SpecUpdate == InitUpdate /\ [][NextUpdate]_vars

\* The read path, over a store drawn from the listings it can hold.
Statuses == {"active", "inactive", "sold", "rented"}
FilterArgs == {Undefined, Def("active"), Def("sold_rented"), Def("inactive"), Def("all"), Def("")}
ViewerArgs == {Undefined, Def(2)}

InitQuery ==
  /\ \E s1 \in Statuses, v1 \in BOOLEAN,
        second \in {{}, {[id |-> 2, ownerId |-> GhostUser, price |-> 200, currency |-> "EUR",
                          status |-> "sold", isVerified |-> TRUE]},
                        {[id |-> 2, ownerId |-> 2, price |-> 200, currency |-> "EUR",
                          status |-> "inactive", isVerified |-> FALSE]}} :
       properties = {[id |-> 1, ownerId |-> 1, price |-> 100, currency |-> "USD",
                      status |-> s1, isVerified |-> v1]} \cup second
  /\ users = {[id |-> 1, role |-> "private_seller", listingLimit |-> Def(1), email |-> "u1@x"],
              [id |-> 2, role |-> "agency", listingLimit |-> Null, email |-> "u2@x"],
              [id |-> 3, role |-> "renter", listingLimit |-> Null, email |-> ""]}
  /\ \E n \in 0..MaxChildren :
       propertyImages = {ImageRow(i, 1, i) : i \in 1..n}
                          \cup {ImageRow(MaxChildren + 1, p.id, 1) : p \in properties \ {RowOf(properties, 1)}}
  /\ \E m \in 0..MaxChildren :
       propertyViews = {[id |-> i, propertyId |-> 1] : i \in 1..m}
  /\ \E h \in 0..MaxChildren :
       pricingHistory = {[id |-> i, propertyId |-> 1, price |-> 100 * i, currency |-> "USD"] : i \in 1..h}
                          \cup {[id |-> MaxChildren + 1, propertyId |-> p.id, price |-> p.price,
                                 currency |-> p.currency] : p \in properties \ {RowOf(properties, 1)}}
  /\ wishlist = {[userId |-> 2, propertyId |-> 1]}
  /\ NoChat
  /\ serial = [properties |-> 3, propertyImages |-> MaxChildren + 2,
               pricingHistory |-> MaxChildren + 2, messages |-> 1]
  /\ outbox = <<>>
  /\ result = [op |-> "init", args |-> <<>>, error |-> NoError, value |-> <<>>]
  /\ calls = <<>>

NextQuery ==
  \/ \E arg \in FilterArgs, userId \in ViewerArgs :
       GetProperties(arg, userId) /\ UNCHANGED calls
  \/ \E propertyId \in {1, 2, GhostProperty}, userId \in ViewerArgs :
       GetProperty(propertyId, userId) /\ UNCHANGED calls

SpecQuery == InitQuery /\ [][NextQuery]_vars

\* The verification path: two listings, one system prompt and two conversations
\* drawn from the states a conversation can be in.
Prompt == <<Text("You are a real-estate assistant.")>>

\* The stored messages of a conversation: none, a visible exchange, or a visible
\* exchange after a hidden system message.
Thread(conversationId, kind) ==
  LET base == 3 * (conversationId - 1)
      exchange == {[id |-> base + 1, conversationId |-> conversationId, sender |-> "user",
                    content |-> <<Text("hello")>>, createdAt |-> 2, isVisible |-> TRUE],
                   [id |-> base + 2, conversationId |-> conversationId, sender |-> "ai",
                    content |-> <<Text("welcome")>>, createdAt |-> 3, isVisible |-> TRUE]}
  IN CASE kind = "empty" -> {}
       [] kind = "visible" -> exchange
       [] kind = "hidden" ->
            exchange \cup {[id |-> base + 3, conversationId |-> conversationId,
                            sender |-> "system", content |-> Prompt, createdAt |-> 1,
                            isVisible |-> FALSE]}

ConversationIds == {1, 2}
ThreadKinds == {"empty", "visible", "hidden"}

InitVerify ==
  /\ properties =
       {[id |-> 1, ownerId |-> 1, price |-> 100, currency |-> "USD",
         status |-> "active", isVerified |-> FALSE],
        [id |-> 2, ownerId |-> 2, price |-> 200, currency |-> "EUR",
         status |-> "sold", isVerified |-> TRUE]}
  /\ users = {[id |-> 1, role |-> "private_seller", listingLimit |-> Def(1), email |-> "u1@x"],
              [id |-> 2, role |-> "agency", listingLimit |-> Null, email |-> "u2@x"]}
  /\ propertyImages = {ImageRow(1, 1, 1), ImageRow(2, 1, 2)}
  /\ propertyViews = {}
  /\ pricingHistory = {[id |-> 1, propertyId |-> 1, price |-> 100, currency |-> "USD"],
                       [id |-> 2, propertyId |-> 2, price |-> 200, currency |-> "EUR"]}
  /\ wishlist = {}
  /\ systemPrompts = {[id |-> "sp1", content |-> Prompt]}
  /\ \E active \in [ConversationIds -> BOOLEAN],
        prompt \in [ConversationIds -> {"", "sp1", "sp9"}],
        kind \in [ConversationIds -> ThreadKinds],
        live \in SUBSET ConversationIds :
       /\ conversations = {[id |-> c, isActive |-> active[c], systemPromptId |-> prompt[c]] :
                             c \in ConversationIds}
       /\ messages = UNION {Thread(c, kind[c]) : c \in ConversationIds}
       /\ activeChatSessions =
            [c \in live |-> StartChat(History(OrderByCreatedAt(
                               {m \in Thread(c, kind[c]) : m.isVisible})))]
  /\ now = StartTime
  /\ serial = [properties |-> 3, propertyImages |-> 3, pricingHistory |-> 3, messages |-> 7]
  /\ outbox = <<>>
  /\ result = [op |-> "init", args |-> <<>>, error |-> NoError, value |-> <<>>]
  /\ calls = <<>>

NextVerify ==
  \E id \in {1, 2, GhostProperty} : VerifyProperty(id) /\ UNCHANGED calls

SpecVerify == InitVerify /\ [][NextVerify]_vars

\* ------------------------------------------------------------- addNewProperty, one store step at a time
\* Each await of addNewProperty is one step of a call; steps of different calls
\* interleave freely, since no transaction spans the statements.
CallIds == 1..MaxCalls

\* The concurrent calls are all for the private seller, user 1.
ConcurrentInputs ==
  {input \in CreateInputs : input.ownerId = 1 /\ input.currency = Undefined}

\* A call that has not started: no locals bound yet.
Idle ==
  [pc |-> "select user", input |-> Undefined, role |-> "", listingLimit |-> Null,
   property |-> Undefined, ownerData |-> Undefined, images |-> <<>>]

Goto(c, pc) == calls' = [calls EXCEPT ![c].pc = pc]

\* ownerData?.listingLimit
OwnerLimit(ownerData) ==
  IF ownerData = Undefined THEN Null ELSE ownerData[1].listingLimit

\* Where a call continues after the limit update: the images insert is skipped
\* unless input.images && input.images.length > 0.
AfterUpdate(input) ==
  IF input.images # Undefined /\ Len(input.images[1]) > 0
  THEN "insert images" ELSE "insert pricing"

\* const user = await db.select(...).limit(1), then the two checks that throw.
SelectUser(c, input) ==
  /\ calls[c].pc = "select user"
  /\ LET user == {u \in users : u.id = input.ownerId} IN
     IF user = {}
     THEN /\ calls' = [calls EXCEPT ![c] = [@ EXCEPT !.pc = "thrown", !.input = Def(input)]]
          /\ Throw("addNewProperty", input, UserNotFound)
     ELSE
       LET u == CHOOSE x \in user : TRUE
           role == u.role
           listingLimit == u.listingLimit
       IN
       IF QuotaExceeded(role, listingLimit)
       THEN /\ calls' = [calls EXCEPT ![c] = [@ EXCEPT !.pc = "thrown", !.input = Def(input)]]
            /\ Throw("addNewProperty", input, LimitReached)
       ELSE /\ calls' = [calls EXCEPT ![c] =
                           [@ EXCEPT !.pc = "insert property", !.input = Def(input),
                                     !.role = role, !.listingLimit = listingLimit]]
            /\ UNCHANGED result
  /\ UNCHANGED <<listingTables, chatTables, serial, outbox>>

\* const newProperty = await db.insert(properties).values({...}).returning()
InsertProperty(c) ==
  /\ calls[c].pc = "insert property"
  /\ LET input == calls[c].input[1]
         property == [id |-> serial.properties, ownerId |-> input.ownerId,
                      price |-> input.price,
                      currency |-> OrElse(input.currency, "USD"),
                      status |-> OrElse(input.status, "active"),
                      isVerified |-> FALSE]
     IN
     /\ properties' = properties \cup {property}
     /\ serial' = [serial EXCEPT !.properties = @ + 1]
     /\ calls' = [calls EXCEPT ![c] = [@ EXCEPT !.pc = "select owner",
                                                !.property = Def(property)]]
  /\ UNCHANGED <<users, propertyImages, propertyViews, pricingHistory, wishlist,
                 chatTables, outbox, result>>

\* const owner = await db.select(...); const ownerData = owner[0]; then the guard
\* of the update, on the role and listingLimit of the first read.
SelectOwner(c) ==
  /\ calls[c].pc = "select owner"
  /\ LET input == calls[c].input[1]
         owner == SelectRows({u \in users : u.id = input.ownerId})
         ownerData == IF Len(owner) = 0 THEN Undefined ELSE Def(owner[1])
     IN
     calls' = [calls EXCEPT ![c] =
                 [@ EXCEPT !.ownerData = ownerData,
                           !.pc = IF DecrementGuard(calls[c].role, calls[c].listingLimit)
                                  THEN "update limit" ELSE AfterUpdate(input)]]
  /\ UNCHANGED <<listingTables, chatTables, serial, outbox, result>>

\* await db.update(users).set({ listingLimit: (ownerData?.listingLimit || 1) - 1 })
UpdateLimit(c) ==
  /\ calls[c].pc = "update limit"
  /\ LET input == calls[c].input[1]
         limit == DecrementedLimit(OwnerLimit(calls[c].ownerData))
     IN
     /\ users' = {IF u.id = input.ownerId THEN [u EXCEPT !.listingLimit = Def(limit)] ELSE u
                    : u \in users}
     /\ Goto(c, AfterUpdate(input))
  /\ UNCHANGED <<properties, propertyImages, propertyViews, pricingHistory, wishlist,
                 chatTables, serial, outbox, result>>

\* images = await db.insert(propertyImages).values(input.images.map(...)).returning()
InsertPropertyImages(c) ==
  /\ calls[c].pc = "insert images"
  /\ LET input == calls[c].input[1]
         property == calls[c].property[1]
         images == InsertImages(property.id, input.images[1], serial.propertyImages)
     IN
     /\ propertyImages' = propertyImages \cup Range(images)
     /\ serial' = [serial EXCEPT !.propertyImages = @ + Len(images)]
     /\ calls' = [calls EXCEPT ![c] = [@ EXCEPT !.pc = "insert pricing", !.images = images]]
  /\ UNCHANGED <<properties, users, propertyViews, pricingHistory, wishlist,
                 chatTables, outbox, result>>

\* const pricingHistoryRecord = await db.insert(pricingHistory)..., then the return.
InsertPricingHistory(c) ==
  /\ calls[c].pc = "insert pricing"
  /\ LET input == calls[c].input[1]
         property == calls[c].property[1]
         pricingHistoryRecord ==
           [id |-> serial.pricingHistory, propertyId |-> property.id,
            price |-> input.price, currency |-> OrElse(input.currency, "USD")]
     IN
     /\ pricingHistory' = pricingHistory \cup {pricingHistoryRecord}
     /\ serial' = [serial EXCEPT !.pricingHistory = @ + 1]
     /\ Return("addNewProperty", input,
               [property |-> property, images |-> calls[c].images, views |-> <<>>,
                pricingHistory |-> <<pricingHistoryRecord>>])
     /\ Goto(c, "returned")
  /\ UNCHANGED <<properties, users, propertyImages, propertyViews, wishlist,
                 chatTables, outbox>>

\* Concurrent calls for a private seller whose listingLimit is StartLimit.
InitConcurrent ==
  /\ properties = {}
  /\ users = {[id |-> 1, role |-> "private_seller", listingLimit |-> Def(StartLimit),
               email |-> "u1@x"],
              [id |-> 2, role |-> "agency", listingLimit |-> Def(0), email |-> "u2@x"]}
  /\ propertyImages = {}
  /\ propertyViews = {}
  /\ pricingHistory = {}
  /\ wishlist = {}
  /\ NoChat
  /\ serial = [properties |-> 1, propertyImages |-> 1, pricingHistory |-> 1, messages |-> 1]
  /\ outbox = <<>>
  /\ result = [op |-> "init", args |-> <<>>, error |-> NoError, value |-> <<>>]
  /\ calls = [c \in CallIds |-> Idle]

NextConcurrent ==
  \/ \E c \in CallIds, input \in ConcurrentInputs : SelectUser(c, input)
  \/ \E c \in CallIds : InsertProperty(c)
  \/ \E c \in CallIds : SelectOwner(c)
  \/ \E c \in CallIds : UpdateLimit(c)
  \/ \E c \in CallIds : InsertPropertyImages(c)
  \/ \E c \in CallIds : InsertPricingHistory(c)

SpecConcurrent == InitConcurrent /\ [][NextConcurrent]_vars

\* ------------------------------------------------------------- claims: create, update, delete
Called(op) == result'.op = op

\* The imageUrl/isPrimary entries of image rows, in order.
Entries(imgs) ==
  [i \in 1..Len(imgs) |-> [imageUrl |-> imgs[i].imageUrl, isPrimary |-> imgs[i].isPrimary]]

\* C1: addNewProperty for a private_seller owner whose listingLimit is a non-null
\* value <= 0 fails with "Listings limit reached" and leaves every table as it was;
\* with listingLimit n > 0 it succeeds and the owner's listingLimit becomes n - 1;
\* an owner with another role or a null listingLimit is never rejected and keeps
\* its listingLimit.
C1_ListingQuota ==
  [][Called("addNewProperty") =>
       \A u \in users : u.id = result'.args.ownerId =>
         LET private == u.role = "private_seller"
             limit == u.listingLimit
         IN /\ (private /\ limit # Null /\ limit[1] <= 0) =>
                 /\ result'.error = LimitReached
                 /\ UNCHANGED listingTables
            /\ (private /\ limit # Null /\ limit[1] > 0) =>
                 /\ result'.error = NoError
                 /\ result'.value.property \in properties' \ properties
                 /\ RowOf(users', u.id).listingLimit = Def(limit[1] - 1)
            /\ (~private \/ limit = Null) =>
                 /\ result'.error = NoError
                 /\ users' = users]_vars

C1_Witness ==
  /\ result.op = "addNewProperty"
  /\ result.error = NoError
  /\ result.args.ownerId = 1
  /\ RowOf(users, 1).listingLimit = Def(2)

\* C2: when a price-change dispatch to a wishlisting user rejects, updateProperty
\* still applies the update, appends the pricing-history row and returns.
C2_FailedDispatchDoesNotAbort ==
  [][(Called("updateProperty") /\ DispatchRejects(outbox', result'.args.rejecting)) =>
       LET propertyId == result'.args.propertyId IN
       /\ result'.error = NoError
       /\ RowOf(properties', propertyId).price = result'.args.input.price[1]
       /\ Cardinality(WhereProperty(pricingHistory', propertyId)) =
            Cardinality(WhereProperty(pricingHistory, propertyId)) + 1]_vars

\* The users who wishlist a property and have an email.
WishersWithEmail(propertyId) ==
  {u \in users : /\ u.email # ""
                 /\ \E w \in wishlist : w.userId = u.id /\ w.propertyId = propertyId}

\* C3: updateProperty issues price-change notifications exactly when price is
\* supplied and differs from the stored price: then one per user who wishlists
\* the property and has an email, each with the stored price as oldPrice and the
\* supplied price as newPrice; otherwise none.
C3_DispatchPerWisher ==
  [][Called("updateProperty") =>
       LET propertyId == result'.args.propertyId
           input == result'.args.input
           stored == {p \in properties : p.id = propertyId}
       IN IF /\ stored # {}
             /\ input.price # Undefined
             /\ input.price[1] # RowOf(properties, propertyId).price
          THEN /\ Len(outbox') = Cardinality(WishersWithEmail(propertyId))
               /\ \A u \in WishersWithEmail(propertyId) :
                    Cardinality({i \in 1..Len(outbox') : outbox'[i].email = u.email}) = 1
               /\ \A i \in 1..Len(outbox') :
                    /\ outbox'[i].oldPrice = RowOf(properties, propertyId).price
                    /\ outbox'[i].newPrice = input.price[1]
          ELSE outbox' = <<>>]_vars

C3_Witness ==
  /\ result.op = "updateProperty"
  /\ result.error = NoError
  /\ Len(outbox) = 2
  /\ outbox[1].oldPrice = 100
  /\ outbox[1].newPrice = 200
  /\ \E w \in wishlist : w.userId = 3 /\ w.propertyId = result.args.propertyId

\* C5: deleteProperty on an id with no property row fails with the plain
\* "not found" error, not the "Failed to delete property" wrapper, and changes
\* nothing; on an existing id it deletes the property row.
C5_DeleteNotFound ==
  [][Called("deleteProperty") =>
       IF \E p \in properties : p.id = result'.args
       THEN /\ result'.error = NoError
            /\ ~ \E p \in properties' : p.id = result'.args
       ELSE /\ result'.error = PropertyNotFound
            /\ UNCHANGED listingTables]_vars

\* C7: updateProperty appends exactly one pricing-history row whenever price or
\* currency is supplied and none otherwise; the row carries each supplied value
\* and the stored value of the field not supplied; existing rows stay as they are.
\* Stated for the calls that return.
C7_PricingHistoryAppend ==
  [][(Called("updateProperty") /\ result'.error = NoError) =>
       LET propertyId == result'.args.propertyId
           input == result'.args.input
           stored == RowOf(properties, propertyId)
           new == pricingHistory' \ pricingHistory
       IN /\ pricingHistory \subseteq pricingHistory'
          /\ IF SuppliesPricing(input)
             THEN /\ Cardinality(new) = 1
                  /\ \A r \in new :
                       /\ r.propertyId = propertyId
                       /\ r.price = IF input.price # Undefined
                                    THEN input.price[1] ELSE stored.price
                       /\ r.currency = IF input.currency # Undefined
                                       THEN input.currency[1] ELSE stored.currency
             ELSE new = {}]_vars

\* C8: updateProperty with images supplied replaces the image set: afterwards the
\* stored images of the property and the images of the returned aggregate are
\* exactly the supplied list and none of the previous rows is left; without
\* images the stored image set is unchanged. Stated for the calls that return.
C8_ImagesFullReplace ==
  [][(Called("updateProperty") /\ result'.error = NoError) =>
       LET propertyId == result'.args.propertyId
           input == result'.args.input
           before == WhereProperty(propertyImages, propertyId)
           after == WhereProperty(propertyImages', propertyId)
       IN IF input.images # Undefined
          THEN /\ Entries(SelectRows(after)) = input.images[1]
               /\ Entries(result'.value.images) = input.images[1]
               /\ after \cap before = {}
          ELSE after = before]_vars

\* ------------------------------------------------------------- claims: the read path
Returned(value) == {value[i].property : i \in 1..Len(value)}

NamedFilters == {"active", "sold_rented", "inactive"}

C9_AggregateDeduplicated ==
  result.op = "getProperty" =>
    LET propertyId == result.args.propertyId IN
    IF \E p \in properties : p.id = propertyId
    THEN /\ result.error = NoError
         /\ result.value.property = RowOf(properties, propertyId)
         /\ Range(result.value.images) = WhereProperty(propertyImages, propertyId)
         /\ Len(result.value.images) = Cardinality(WhereProperty(propertyImages, propertyId))
         /\ Range(result.value.views) = WhereProperty(propertyViews, propertyId)
         /\ Len(result.value.views) = Cardinality(WhereProperty(propertyViews, propertyId))
         /\ Range(result.value.pricingHistory) = WhereProperty(pricingHistory, propertyId)
         /\ Len(result.value.pricingHistory) =
              Cardinality(WhereProperty(pricingHistory, propertyId))
    ELSE /\ result.error = PropertyNotFound
         /\ result.value = <<>>

C9_Witness ==
  /\ result.op = "getProperty"
  /\ result.error = NoError
  /\ Len(result.value.images) = 2
  /\ Len(result.value.views) = 2
  /\ Len(result.value.pricingHistory) = 0

\* ------------------------------------------------------------- claims: verification
Found(id) == \E p \in properties : p.id = id

PromptFound(c) == \E sp \in systemPrompts : sp.id = c.systemPromptId

HiddenBefore(c) ==
  {m \in messages : m.conversationId = c.id /\ m.sender = "system" /\ ~ m.isVisible}

\* A hidden system message made of the prompt's content and a summary of the
\* verified property.
IsPromptWithSummary(m, c, id) ==
  /\ m.conversationId = c.id
  /\ m.sender = "system"
  /\ ~ m.isVisible
  /\ \E sp \in systemPrompts :
       /\ sp.id = c.systemPromptId
       /\ Len(m.content) = Len(sp.content) + 2
       /\ SubSeq(m.content, 1, Len(sp.content)) = sp.content
       /\ m.content[Len(m.content)].part = "summary"
       /\ m.content[Len(m.content)].summary[1].id = id
       /\ m.content[Len(m.content)].summary[1].isVerified = "Yes"

\* The message m with a summary of the verified property appended to its content.
IsAppended(after, m, id) ==
  /\ after.id = m.id
  /\ [after EXCEPT !.content = m.content] = m
  /\ Len(after.content) = Len(m.content) + 2
  /\ SubSeq(after.content, 1, Len(m.content)) = m.content
  /\ after.content[Len(after.content)].part = "summary"
  /\ after.content[Len(after.content)].summary[1].id = id

InsertsOne(c, id) ==
  LET before == ConversationMessages(messages, c.id)
      after == ConversationMessages(messages', c.id)
  IN /\ before \subseteq after
     /\ Cardinality(after \ before) = 1
     /\ \A m \in after \ before : IsPromptWithSummary(m, c, id)

AppendsToHidden(c, id) ==
  LET before == ConversationMessages(messages, c.id)
      after == ConversationMessages(messages', c.id)
  IN /\ Cardinality(after) = Cardinality(before)
     /\ \E m \in HiddenBefore(c) :
          /\ before \ {m} \subseteq after
          /\ \E a \in after : IsAppended(a, m, id)

Untouched(c) ==
  ConversationMessages(messages', c.id) = ConversationMessages(messages, c.id)

NoInsert(c) ==
  {m.id : m \in ConversationMessages(messages', c.id)}
    \subseteq {m.id : m \in ConversationMessages(messages, c.id)}

\* C6 as stated, for a property that exists: a new hidden message for the active
\* conversations with a resolvable prompt and no hidden message; no message for
\* the conversations without systemPromptId, with an unknown prompt or inactive;
\* and for the conversations that already have a hidden system message (read
\* here as the active ones only), no insert and the summary appended to it.
C6_AppendWheneverHidden ==
  [][(Called("verifyProperty") /\ Found(result'.args)) =>
       \A c \in conversations :
         /\ (c.isActive /\ c.systemPromptId # "" /\ PromptFound(c) /\ HiddenBefore(c) = {})
              => InsertsOne(c, result'.args)
         /\ (~ c.isActive \/ c.systemPromptId = "" \/ ~ PromptFound(c)) => NoInsert(c)
         /\ (c.isActive /\ HiddenBefore(c) # {}) => AppendsToHidden(c, result'.args)]_vars

\* C6 (amended): verifyProperty on an existing property inserts exactly one hidden
\* system message, the prompt content followed by the property summary, for every
\* active conversation with a systemPromptId of an existing prompt and no hidden
\* system message; for an active conversation with a systemPromptId that already
\* has a hidden system message it inserts none and appends the summary to that
\* message; the messages of every other conversation (inactive, without
\* systemPromptId, or without hidden message and with an unknown prompt) stay as
\* they are, a hidden system message included.
C6_HiddenMessageSync ==
  [][(Called("verifyProperty") /\ Found(result'.args)) =>
       \A c \in conversations :
         LET eligible == c.isActive /\ c.systemPromptId # ""
         IN /\ (eligible /\ HiddenBefore(c) = {} /\ PromptFound(c)) =>
                 InsertsOne(c, result'.args)
            /\ (eligible /\ HiddenBefore(c) # {}) => AppendsToHidden(c, result'.args)
            /\ (~ eligible \/ (HiddenBefore(c) = {} /\ ~ PromptFound(c))) => Untouched(c)]_vars

C6_Witness ==
  /\ result.op = "verifyProperty"
  /\ result.error = NoError
  /\ \E c \in conversations :
       /\ c.isActive /\ c.systemPromptId = "sp1"
       /\ \E m \in messages : m.createdAt = now - 1 /\ IsPromptWithSummary(m, c, result.args)
  /\ \E c \in conversations :
       /\ c.isActive /\ c.systemPromptId = ""
       /\ \E m \in messages : m.conversationId = c.id /\ m.content = Prompt

\* The expected seed of a rebuilt session: every stored message of the
\* conversation, by creation time, "model" for the ai's and "user" for the others.
SeededWith(session, rows) ==
  /\ Len(session.history) = Cardinality(rows)
  /\ \A i \in 1..Len(session.history) :
       \E m \in rows :
         /\ Cardinality({o \in rows : o.createdAt < m.createdAt}) = i - 1
         /\ session.history[i].parts = m.content
         /\ session.history[i].role = (IF m.sender = "ai" THEN "model" ELSE "user")

\* The conversations whose append or insert branch runs.
Processed(c, id) ==
  /\ Found(id)
  /\ c.isActive
  /\ c.systemPromptId # ""
  /\ (HiddenBefore(c) # {} \/ PromptFound(c))

\* C10: verifyProperty replaces the registry entry of a processed conversation if
\* and only if the registry already holds one, seeding the new session with the
\* conversation's messages as stored after the hidden message was written, by
\* creation time; it creates no entry and leaves the entries of the conversations
\* it skips, and of inactive ones, as they are.
C10_SessionRebuild ==
  [][Called("verifyProperty") =>
       /\ DOMAIN activeChatSessions' = DOMAIN activeChatSessions
       /\ \A c \in conversations :
            c.id \in DOMAIN activeChatSessions =>
              IF Processed(c, result'.args)
              THEN /\ SeededWith(activeChatSessions'[c.id],
                                 ConversationMessages(messages', c.id))
                   /\ activeChatSessions'[c.id] # activeChatSessions[c.id]
              ELSE activeChatSessions'[c.id] = activeChatSessions[c.id]]_vars

C10_Witness ==
  /\ result.op = "verifyProperty"
  /\ result.error = NoError
  /\ 1 \in DOMAIN activeChatSessions
  /\ 2 \notin DOMAIN activeChatSessions
  /\ Len(activeChatSessions[1].history) = 3
  /\ activeChatSessions[1].history[2].role = "user"
  /\ activeChatSessions[1].history[3].role = "model"
  /\ \E m \in messages : m.conversationId = 2 /\ m.createdAt = now - 1

\* ------------------------------------------------------------- claims: concurrent create
\* The properties the concurrent calls have inserted for the private seller.
InsertedForSeller == {p \in properties : p.ownerId = 1}

\* however the calls interleave, at most StartLimit properties are inserted.
QuotaRespected == Cardinality(InsertedForSeller) <= StartLimit

\* the private seller's listingLimit is never negative.
LimitNeverNegative == RowOf(users, 1).listingLimit[1] >= 0

\* C11: under any interleaving of concurrent addNewProperty calls for the same
\* private seller whose listingLimit is n > 0, at most n of the calls insert a
\* property, and the owner's listingLimit never becomes negative.
C11_QuotaUnderInterleaving == QuotaRespected /\ LimitNeverNegative
====
